---- MODULE Spec2Model ----
(***************************************************************************)
(* Effective-permission resolution of the Dataplex business UI backend     *)
(* (server.js): getRoleDetails, resolveEffectivePermissions and the        *)
(* handlers POST /check-iam-permissions, POST /api/check-iam-role and      *)
(* POST /api/v1/check-iam-role.                                            *)
(*                                                                         *)
(* Representation of JavaScript values:                                    *)
(*  - a role name is the sequence of its '/'-separated segments, so        *)
(*    split('/') is the identity and startsWith('roles/') is a test on the *)
(*    first segment: "roles/viewer" is <<"roles", "viewer">>;              *)
(*  - an e-mail / member identifier is the sequence of its lexemes with    *)
(*    ":" a lexeme of its own: "user:a" is <<"user", ":", "a">>, template  *)
(*    concatenation is \o and includes(':') looks for the ":" lexeme;      *)
(*  - a JavaScript Set is the sequence of its elements in insertion order  *)
(*    (the order its iterator and Array.from follow);                      *)
(*  - a request field is a tagged value [t, v], t the typeof tag.          *)
(***************************************************************************)
EXTENDS Naturals, Integers, Sequences, FiniteSets, TLC

(***************************************************************************)
(* Bounds of the model.                                                    *)
(***************************************************************************)
\* longest includedRoles list a provider response carries
MaxIncl == 2
\* largest number of bindings in a policy
MaxBindings == 2

(***************************************************************************)
(* Generic helpers.                                                        *)
(***************************************************************************)
Range(s) == {s[k] : k \in 1..Len(s)}

\* Set.prototype.add on a Set kept as its insertion-ordered element sequence
SetAdd(s, x) == IF x \in Range(s) THEN s ELSE Append(s, x)

RECURSIVE SetAddAll(_, _)
\* forEach(x => set.add(x)) over the array xs
SetAddAll(s, xs) ==
    IF xs = <<>> THEN s ELSE SetAddAll(SetAdd(s, Head(xs)), Tail(xs))

\* sequences over S of length at most n
SeqUpTo(S, n) == UNION {[1..k -> S] : k \in 0..n}

(***************************************************************************)
(* Role names, permissions and principals of the model.                    *)
(***************************************************************************)
rOwner  == <<"roles", "owner">>
rEditor == <<"roles", "editor">>
rViewer == <<"roles", "viewer">>
rCustom == <<"projects", "p1", "roles", "c1">>
\* an organization-level custom role
rOrg    == <<"organizations", "o1", "roles", "c2">>
\* the name of the project custom role followed by one more segment
rExtra  == <<"projects", "p1", "roles", "c1", "extra">>
\* a role name of no shape getRoleDetails knows
rFolder == <<"folders", "f1", "roles", "c3">>

PredefinedRoles == {rOwner, rEditor, rViewer}
RoleNames == PredefinedRoles \cup {rCustom, rOrg, rExtra, rFolder}

\* the includedPermissions list the role catalog declares for a role
DeclaredPermissions(name) ==
    CASE name = rViewer -> <<"p1">>
      [] name = rEditor -> <<"p2">>
      [] name = rOwner  -> <<"p3", "p1">>
      [] name = rCustom -> <<"p4">>
      [] name = rOrg    -> <<"p5">>
      [] OTHER          -> <<>>

(***************************************************************************)
(* JavaScript string order: Array.prototype.sort() without a comparator    *)
(* orders strings by their UTF-16 code units.                              *)
(***************************************************************************)
CodeUnits(lexeme) ==
    CASE lexeme = "roles"    -> <<114, 111, 108, 101, 115>>
      [] lexeme = "projects" -> <<112, 114, 111, 106, 101, 99, 116, 115>>
      [] lexeme = "owner"    -> <<111, 119, 110, 101, 114>>
      [] lexeme = "editor"   -> <<101, 100, 105, 116, 111, 114>>
      [] lexeme = "viewer"   -> <<118, 105, 101, 119, 101, 114>>
      [] lexeme = "c1"       -> <<99, 49>>
      [] lexeme = "p1"       -> <<112, 49>>
      [] lexeme = "p2"       -> <<112, 50>>
      [] lexeme = "p3"       -> <<112, 51>>
      [] lexeme = "p4"       -> <<112, 52>>
      [] lexeme = "p5"       -> <<112, 53>>
      [] lexeme = "organizations" ->
             <<111, 114, 103, 97, 110, 105, 122, 97, 116, 105, 111, 110, 115>>
      [] lexeme = "o1"       -> <<111, 49>>
      [] lexeme = "c2"       -> <<99, 50>>
      [] lexeme = "extra"    -> <<101, 120, 116, 114, 97>>
      [] lexeme = "folders"  -> <<102, 111, 108, 100, 101, 114, 115>>
      [] lexeme = "f1"       -> <<102, 49>>
      [] lexeme = "c3"       -> <<99, 51>>
      [] OTHER               -> <<>>

RECURSIVE JoinUnits(_)
\* code units of the role name whose segments are segs ('/' is 47)
JoinUnits(segs) ==
    IF segs = <<>> THEN <<>>
    ELSE IF Len(segs) = 1 THEN CodeUnits(segs[1])
    ELSE CodeUnits(segs[1]) \o <<47>> \o JoinUnits(Tail(segs))

RECURSIVE UnitsLess(_, _)
\* a < b for two code-unit sequences
UnitsLess(a, b) ==
    IF b = <<>> THEN FALSE
    ELSE IF a = <<>> THEN TRUE
    ELSE IF a[1] # b[1] THEN a[1] < b[1]
    ELSE UnitsLess(Tail(a), Tail(b))

RECURSIVE SortInsert(_, _, _)
\* insert x into the sorted array; units maps each string to its code units
SortInsert(sorted, x, units) ==
    IF sorted = <<>> THEN <<x>>
    ELSE IF UnitsLess(units[x], units[Head(sorted)])
         THEN <<x>> \o sorted
         ELSE <<Head(sorted)>> \o SortInsert(Tail(sorted), x, units)

\* SortBy leaving the array as it is
SortByNone(arr, units) == arr

RECURSIVE SortBy(_, _)
\* Array.prototype.sort() on an array of strings
SortBy(arr, units) ==
    IF arr = <<>> THEN <<>>
    ELSE SortInsert(SortBy(SubSeq(arr, 1, Len(arr) - 1), units), arr[Len(arr)], units)

SortPermissions(arr) == SortBy(arr, [x \in Range(arr) |-> CodeUnits(x)])
SortRoles(arr) == SortBy(arr, [x \in Range(arr) |-> JoinUnits(x)])

(***************************************************************************)
(* Request fields: JavaScript values with their typeof tag.                *)
(***************************************************************************)
Str(v) == [t |-> "string", v |-> v]
Undefined == [t |-> "undefined", v |-> <<>>]
Num7 == [t |-> "number", v |-> <<"7">>]

RECURSIVE TrimStart(_)
TrimStart(v) == IF v # <<>> /\ Head(v) = " " THEN TrimStart(Tail(v)) ELSE v

RECURSIVE TrimEnd(_)
TrimEnd(v) ==
    IF v # <<>> /\ v[Len(v)] = " " THEN TrimEnd(SubSeq(v, 1, Len(v) - 1)) ELSE v

\* String.prototype.trim()
Trim(v) == TrimEnd(TrimStart(v))

\* IsBlank without the trim() of the third test
IsBlankNoTrim(x) == x.t # "string" \/ x.v = <<>>

\* !x || typeof x !== 'string' || x.trim() === ''
IsBlank(x) == \/ x.t = "undefined"
              \/ (x.t = "string" /\ x.v = <<>>)
              \/ x.t # "string"
              \/ Trim(x.v) = <<>>

\* email.includes(':')
IncludesColon(email) == \E k \in 1..Len(email) : email[k] = ":"

\* const memberIdentifier = email.includes(':') ? email : `user:${email}`
MemberIdentifier(email) ==
    IF IncludesColon(email) THEN email ELSE <<"user", ":">> \o email

\* const serviceAccountIdentifier = email.includes(':') ? email : `serviceAccount:${email}`
ServiceAccountIdentifier(email) ==
    IF IncludesColon(email) THEN email ELSE <<"serviceAccount", ":">> \o email

(***************************************************************************)
(* Policy Provider data: response.data of projects.getIamPolicy.           *)
(***************************************************************************)
userA == <<"user", ":", "a">>
saA   == <<"serviceAccount", ":", "a">>
userB == <<"user", ":", "b">>

\* a binding; hasMembers = FALSE is a binding without a members field
Binding(role, hasMembers, members) ==
    [role |-> role, hasMembers |-> hasMembers, members |-> members]

Bindings ==
    {Binding(r, TRUE, <<userA>>) : r \in RoleNames}
      \cup {Binding(rViewer, TRUE, <<userB, saA>>),
            Binding(rEditor, FALSE, <<>>)}

\* kind "null": no data; "nobindings": a policy object without bindings
PolicyData(kind, bindings) == [kind |-> kind, bindings |-> bindings]
NoPolicy == PolicyData("none", <<>>)

Policies ==
    {PolicyData("null", <<>>), PolicyData("nobindings", <<>>)}
      \cup {PolicyData("bindings", b) : b \in SeqUpTo(Bindings, MaxBindings)}

(***************************************************************************)
(* Provider outcomes: a response or a rejected promise (error.code).       *)
(***************************************************************************)
\* code is error.code, reason is error.errors[0].reason
Response(kind, code, reason, permsPresent, perms, incl) ==
    [kind |-> kind, code |-> code, reason |-> reason, permsPresent |-> permsPresent,
     includedPermissions |-> perms, includedRoles |-> incl]

Unasked == Response("unasked", 0, "", FALSE, <<>>, <<>>)
Failure(e) == Response("error", e[1], e[2], FALSE, <<>>, <<>>)
\* the error a call on an undefined client raises: a TypeError has no code
TypeError == Failure(<<0, "">>)

\* not-found, permission-denied (by code, by reason) and transient errors
Errors == {<<404, "notFound">>, <<403, "forbidden">>,
           <<400, "FORBIDDEN">>, <<500, "backendError">>}

\* the roles a provider response names in includedRoles
IncludableRoles == {rEditor, rViewer}

\* includedRoles lists of a predefined role
InclLists == SeqUpTo(IncludableRoles, MaxIncl)

\* includedRoles lists a response for a custom role may carry
CustomInclLists == {<<>>, <<rViewer>>}

\* what the Role Metadata Provider may answer to a request for name
RoleResponses(name) ==
    {Failure(e) : e \in Errors}
      \cup {Response("ok", 200, "", TRUE, DeclaredPermissions(name), l) :
               l \in IF name \in PredefinedRoles THEN InclLists ELSE CustomInclLists}

\* what the Policy Provider may answer
PolicyResponse(kind, code, reason, data) ==
    [kind |-> kind, code |-> code, reason |-> reason, data |-> data]
\* kind, error.code and error.errors[0].reason of a settled request
Outcome(resp) == [kind |-> resp.kind, code |-> resp.code, reason |-> resp.reason]
NoOutcome == [kind |-> "none", code |-> 0, reason |-> ""]

PolicyResponses ==
    {PolicyResponse("error", e[1], e[2], NoPolicy) : e \in Errors}
      \cup {PolicyResponse("ok", 200, "", d) : d \in Policies}

(***************************************************************************)
(* getRoleDetails (server.js 102-141).                                     *)
(***************************************************************************)
\* roleName.startsWith('roles/')
StartsWithRoles(roleName) == Len(roleName) >= 2 /\ roleName[1] = "roles"

\* IsProjectRole without the test of the first segment
IsProjectRoleAnyScope(parts) == Len(parts) >= 4 /\ parts[3] = "roles"

\* parts.length >= 4 && parts[0] === 'projects' && parts[2] === 'roles'
IsProjectRole(parts) ==
    Len(parts) >= 4 /\ parts[1] = "projects" /\ parts[3] = "roles"

\* which branch of getRoleDetails a role name takes
RoleKind(roleName) ==
    IF StartsWithRoles(roleName) THEN "predefined"
    ELSE IF IsProjectRole(roleName) THEN "projectCustom"
    ELSE "unrecognized"

\* the name the provider is asked for
RequestedName(roleName) ==
    IF StartsWithRoles(roleName) THEN roleName
    ELSE <<"projects", roleName[2], "roles", roleName[4]>>

EmptyDetails == [permissions |-> <<>>, includedRoles |-> <<>>]

\* response.data.includedPermissions || []
PermissionsOrEmpty(resp) ==
    IF resp.permsPresent THEN resp.includedPermissions ELSE <<>>

\* DetailsOfResponse with includedRoles empty for every role
DetailsOfResponseFlat(roleName, resp) ==
    [permissions |-> PermissionsOrEmpty(resp), includedRoles |-> <<>>]

\* DetailsOfResponse passing on the includedRoles of every response
DetailsOfResponseNested(roleName, resp) ==
    [permissions |-> PermissionsOrEmpty(resp), includedRoles |-> resp.includedRoles]

\* the object getRoleDetails returns for a provider response
DetailsOfResponse(roleName, resp) ==
    IF StartsWithRoles(roleName)
    THEN [permissions |-> PermissionsOrEmpty(resp), includedRoles |-> resp.includedRoles]
    ELSE [permissions |-> PermissionsOrEmpty(resp), includedRoles |-> <<>>]

\* IsNotFound with every error taken for a missing role
IsNotFoundAnyError(resp) == resp.kind = "error"

\* IsNotFound comparing the numeric code with the string '404'
IsNotFoundNever(resp) == FALSE

\* the catch block: TRUE when the error is converted to empty details
IsNotFound(resp) == resp.code = 404

(***************************************************************************)
(* Member matching of POST /check-iam-permissions (server.js 232-241).     *)
(***************************************************************************)
\* BindingMatches without the serviceAccount candidate
BindingMatchesUserOnly(b, member, sa) == b.hasMembers /\ member \in Range(b.members)

\* BindingMatches taking every binding that has members
BindingMatchesAnyone(b, member, sa) == b.hasMembers

\* binding.members && (members.includes(member) || members.includes(sa))
BindingMatches(b, member, sa) ==
    b.hasMembers /\ (member \in Range(b.members) \/ sa \in Range(b.members))

RECURSIVE CollectRoles(_, _, _, _)
\* for (const binding of policy.bindings) ... assignedRoles.add(binding.role)
CollectRoles(bindings, member, sa, acc) ==
    IF bindings = <<>> THEN acc
    ELSE CollectRoles(Tail(bindings), member, sa,
                      IF BindingMatches(Head(bindings), member, sa)
                      THEN SetAdd(acc, Head(bindings).role) ELSE acc)

\* the Set assignedRoles the handler builds from the policy
FindAssignedRoles(data, email) ==
    IF data.kind = "bindings"
    THEN CollectRoles(data.bindings, MemberIdentifier(email),
                      ServiceAccountIdentifier(email), <<>>)
    ELSE <<>>

(***************************************************************************)
(* Member matching of POST /api/check-iam-role (server.js 320, 344-358).   *)
(***************************************************************************)
RECURSIVE CollectUserRoles(_, _)
\* if ((binding.members || []).includes(member)) userRoles.push(binding.role)
CollectUserRoles(bindings, member) ==
    IF bindings = <<>> THEN <<>>
    ELSE (IF Head(bindings).hasMembers /\ member \in Range(Head(bindings).members)
          THEN <<Head(bindings).role>> ELSE <<>>)
         \o CollectUserRoles(Tail(bindings), member)

FindUserRoles(data, email) ==
    IF data.kind = "bindings"
    THEN CollectUserRoles(data.bindings, MemberIdentifier(email))
    ELSE <<>>

\* HasRoleOf without the roles/owner shortcut
HasRoleOfNoOwner(data, userRoles, role) ==
    data.kind = "bindings" /\ role \in Range(userRoles)

\* userRoles.includes(role) || userRoles.includes(`roles/owner`)
HasRoleOf(data, userRoles, role) ==
    /\ data.kind = "bindings"
    /\ (role \in Range(userRoles) \/ rOwner \in Range(userRoles))

(***************************************************************************)
(* HTTP responses.  fields names the keys the JSON body carries.           *)
(***************************************************************************)
HttpResponse(status, fields, assigned, effective, has, roles, perms) ==
    [status |-> status, fields |-> fields,
     assignedRoles |-> assigned, effectivePermissions |-> effective,
     hasRole |-> has, roles |-> roles, permissions |-> perms]

NoResponse == HttpResponse(0, {}, <<>>, <<>>, FALSE, <<>>, <<>>)

\* res.status(400).json({ error })
BadRequest == HttpResponse(400, {"error"}, <<>>, <<>>, FALSE, <<>>, <<>>)

\* res.status(500).json({ error }) when the clients failed to initialize
ClientsFailed == HttpResponse(500, {"error"}, <<>>, <<>>, FALSE, <<>>, <<>>)

\* IsPermissionDenied without the test of errors[0].reason
IsPermissionDeniedByCode(err) == err.code = 403

\* error.code === 403 || error.errors[0].reason === 'FORBIDDEN'
IsPermissionDenied(err) == err.code = 403 \/ err.reason = "FORBIDDEN"

\* the catch block of POST /check-iam-permissions (server.js 270-280)
PermissionsCatch(err) ==
    IF IsPermissionDenied(err)
    THEN HttpResponse(403, {"error", "details", "requiredPermissions"},
                      <<>>, <<>>, FALSE, <<>>, <<>>)
    ELSE HttpResponse(500, {"error", "details"}, <<>>, <<>>, FALSE, <<>>, <<>>)

\* the catch block of POST /api/check-iam-role (server.js 388-398)
RoleCatch(err) ==
    IF IsPermissionDenied(err)
    THEN HttpResponse(403, {"error", "details"}, <<>>, <<>>, FALSE, <<>>, <<>>)
    ELSE HttpResponse(500, {"error", "details"}, <<>>, <<>>, FALSE, <<>>, <<>>)

\* res.json({ email, projectId, assignedRoles, effectivePermissions, message })
PermissionsSuccess(assigned, effective) ==
    HttpResponse(200,
                 {"email", "projectId", "assignedRoles", "effectivePermissions", "message"},
                 assigned, effective, FALSE, <<>>, <<>>)

\* res.json({ hasRole, roles, permissions, message })
RoleSuccess(has, roles, perms) ==
    HttpResponse(200, {"hasRole", "roles", "permissions", "message"},
                 <<>>, <<>>, has, roles, perms)

(***************************************************************************)
(* State.                                                                  *)
(***************************************************************************)
VARIABLES
    cloudResourceManager,  \* module global: TRUE once the client is set
    iam,                   \* module global: TRUE once the client is set
    startup,               \* the un-awaited initializeGoogleClients() of line 94
    catalog,               \* what the Role Metadata Provider has answered so far
    pc,                    \* per request: the await the handler is suspended at
    endpoint,              \* per request: the route that received it
    body,                  \* per request: projectId, email, role
    policyOutcome,         \* per request: how the getIamPolicy promise settled
    policy,                \* per request: response.data of getIamPolicy
    assignedRoles,         \* /check-iam-permissions: Set assignedRoles
    roleCache,             \* /check-iam-permissions: Map roleCache
    queue,                 \* resolveEffectivePermissions: Set queue
    cursor,                \* resolveEffectivePermissions: elements the iterator has passed
    processed,             \* resolveEffectivePermissions: Set processed
    effectivePermissions,  \* resolveEffectivePermissions: Set effectivePermissions
    roleName,              \* the role a pending provider request is for
    userRoles,             \* /api/check-iam-role: array userRoles
    hasRole,               \* /api/check-iam-role: let hasRole
    permissions,           \* /api/check-iam-role: let permissions
    roleIndex,             \* /api/check-iam-role: roles the for-of loop has passed
    response,              \* per request: the HTTP response sent
    detailCalls,           \* per request: role names getRoleDetails was invoked with
    roleRequests,          \* per request: names requested from the Role Metadata Provider
    policyRequests         \* per request: number of getIamPolicy requests

globals == <<cloudResourceManager, iam, startup>>
received == <<endpoint, body>>
resolving == <<roleCache, queue, cursor, processed, effectivePermissions>>
checking == <<userRoles, hasRole, permissions, roleIndex>>
logs == <<detailCalls, roleRequests, policyRequests>>

vars == <<globals, catalog, pc, received, policyOutcome, policy, assignedRoles, resolving, roleName,
          checking, response, logs>>

Requests == DOMAIN pc

NoCache == [k \in {} |-> EmptyDetails]
NoRole == <<>>

\* n requests not yet received, and a provider that has not been asked anything
RequestsIdle(n) ==
    /\ catalog = [name \in RoleNames |-> Unasked]
    /\ pc = [i \in 1..n |-> "idle"]
    /\ endpoint = [i \in 1..n |-> "none"]
    /\ body = [i \in 1..n |-> [projectId |-> Undefined, email |-> Undefined, role |-> Undefined]]
    /\ policyOutcome = [i \in 1..n |-> NoOutcome]
    /\ policy = [i \in 1..n |-> NoPolicy]
    /\ assignedRoles = [i \in 1..n |-> <<>>]
    /\ roleCache = [i \in 1..n |-> NoCache]
    /\ queue = [i \in 1..n |-> <<>>]
    /\ cursor = [i \in 1..n |-> 0]
    /\ processed = [i \in 1..n |-> {}]
    /\ effectivePermissions = [i \in 1..n |-> <<>>]
    /\ roleName = [i \in 1..n |-> NoRole]
    /\ userRoles = [i \in 1..n |-> <<>>]
    /\ hasRole = [i \in 1..n |-> FALSE]
    /\ permissions = [i \in 1..n |-> <<>>]
    /\ roleIndex = [i \in 1..n |-> 0]
    /\ response = [i \in 1..n |-> NoResponse]
    /\ detailCalls = [i \in 1..n |-> <<>>]
    /\ roleRequests = [i \in 1..n |-> <<>>]
    /\ policyRequests = [i \in 1..n |-> 0]

\* server.js has been loaded: the start-up initialization is still running
InitLoaded ==
    /\ cloudResourceManager = FALSE
    /\ iam = FALSE
    /\ startup = "pending"
    /\ RequestsIdle(1)

\* the start-up initialization has settled, with or without the clients
Init ==
    \E ok \in BOOLEAN :
        /\ cloudResourceManager = ok
        /\ iam = ok
        /\ startup = "finished"
        /\ RequestsIdle(1)

(***************************************************************************)
(* Inputs.                                                                 *)
(***************************************************************************)
ProjectIdValues == {Str(<<"p1">>), Undefined, Str(<<>>), Str(<<" ">>), Num7}
EmailValues == {Str(<<"a">>), Str(userA), Undefined, Str(<<>>), Str(<<" ">>), Num7}
RoleValues == {Str(rViewer), Undefined, Str(<<>>), Str(<<" ">>), Num7}

(***************************************************************************)
(* initializeGoogleClients (server.js 58-91).                              *)
(***************************************************************************)
\* ClientsAfterInit with the catch block clearing the clients
ClientsAfterInitCleared(ok) ==
    /\ cloudResourceManager' = ok
    /\ iam' = ok

\* the continuation after `await authClient.getClient()`: both clients are
\* assigned when it resolved, the catch block leaves them alone when it rejected
ClientsAfterInit(ok) ==
    /\ cloudResourceManager' = (cloudResourceManager \/ ok)
    /\ iam' = (iam \/ ok)

\* the call of line 94 completes
StartupInitialized(ok) ==
    /\ startup = "pending"
    /\ startup' = "finished"
    /\ ClientsAfterInit(ok)
    /\ UNCHANGED <<policyOutcome, catalog, pc, received, policy, assignedRoles, resolving, roleName,
                   checking, response, logs>>

(***************************************************************************)
(* resolveEffectivePermissions (server.js 150-180).                        *)
(***************************************************************************)
\* EnqueueIncluded with the forEach of lines 173-177 left out
EnqueueIncludedNone(q, included, done) == q

\* EnqueueIncluded looking at the first included role only
EnqueueIncludedFirst(q, included, done) ==
    IF included = <<>> \/ Head(included) \in done THEN q ELSE SetAdd(q, Head(included))

RECURSIVE EnqueueIncluded(_, _, _)
\* roleDetails.includedRoles.forEach(r => { if (!processed.has(r)) queue.add(r) })
EnqueueIncluded(q, included, done) ==
    IF included = <<>> THEN q
    ELSE EnqueueIncluded(IF Head(included) \notin done THEN SetAdd(q, Head(included)) ELSE q,
                         Tail(included), done)

\* CacheSet with line 166 left out
CacheSetNone(cache, r, details) == cache

\* roleCache.set(roleName, roleDetails)
CacheSet(cache, r, details) == (r :> details) @@ cache

\* lines 169-177 for the role details just obtained
Accumulate(i, details) ==
    /\ effectivePermissions' =
         [effectivePermissions EXCEPT ![i] = SetAddAll(@, details.permissions)]
    /\ queue' = [queue EXCEPT ![i] = EnqueueIncluded(@, details.includedRoles, processed'[i])]

\* RolesAfterCall when queue is the Set passed in, not a copy of it
RolesAfterCallAliased(rolesToResolve, q) == q

\* const queue = new Set(rolesToResolve): the loop adds to the copy, and the
\* Set the caller passed holds after the call what it held before
RolesAfterCall(rolesToResolve, q) == rolesToResolve

\* the handler's continuation when resolveEffectivePermissions has returned
\* (server.js 258-268)
SendPermissions(i) ==
    /\ response' = [response EXCEPT ![i] =
         PermissionsSuccess(SortRoles(RolesAfterCall(assignedRoles[i], queue[i])),
                            SortPermissions(effectivePermissions[i]))]
    /\ pc' = [pc EXCEPT ![i] = "done"]

\* CachedDetails looking into the Map of every call
CachedDetailsShared(i, r) ==
    {roleCache[j][r] : j \in {k \in Requests : r \in DOMAIN roleCache[k]}}

\* roleCache.has(roleName) / roleCache.get(roleName) on the Map of call i:
\* the details found, if any
CachedDetails(i, r) ==
    IF r \in DOMAIN roleCache[i] THEN {roleCache[i][r]} ELSE {}

\* one turn of the for-of loop over queue, up to the next await
ResolveNext(i) ==
    /\ pc[i] = "resolve"
    /\ IF cursor[i] >= Len(queue[i])
       THEN \* the iterator is exhausted: return effectivePermissions
            /\ SendPermissions(i)
            /\ UNCHANGED <<catalog, resolving, roleName, logs>>
       ELSE LET r == queue[i][cursor[i] + 1] IN
            /\ cursor' = [cursor EXCEPT ![i] = @ + 1]
            /\ IF r \in processed[i]
               THEN UNCHANGED <<pc, response, processed, roleCache, queue,
                                effectivePermissions, roleName, logs, catalog>>
               ELSE /\ processed' = [processed EXCEPT ![i] = @ \cup {r}]
                    /\ IF CachedDetails(i, r) # {}
                       THEN /\ Accumulate(i, CHOOSE d \in CachedDetails(i, r) : TRUE)
                            /\ UNCHANGED <<pc, response, roleCache, roleName, logs, catalog>>
                       ELSE /\ detailCalls' = [detailCalls EXCEPT ![i] = Append(@, r)]
                            /\ UNCHANGED <<policyRequests, catalog>>
                            /\ IF RoleKind(r) = "unrecognized"
                               THEN \* line 131: empty details, no request
                                    /\ roleCache' = [roleCache EXCEPT ![i] = CacheSet(@, r, EmptyDetails)]
                                    /\ Accumulate(i, EmptyDetails)
                                    /\ UNCHANGED <<pc, response, roleName, roleRequests>>
                               ELSE IF ~iam
                               THEN \* iam is undefined: TypeError, rethrown at line 139
                                    /\ response' = [response EXCEPT ![i] = PermissionsCatch(TypeError)]
                                    /\ pc' = [pc EXCEPT ![i] = "done"]
                                    /\ UNCHANGED <<roleCache, queue, effectivePermissions,
                                                   roleName, roleRequests>>
                               ELSE \* await iam.roles.get / iam.projects.roles.get
                                    /\ roleRequests' = [roleRequests EXCEPT ![i] = Append(@, RequestedName(r))]
                                    /\ roleName' = [roleName EXCEPT ![i] = r]
                                    /\ pc' = [pc EXCEPT ![i] = "getRoleDetails"]
                                    /\ UNCHANGED <<response, roleCache, queue, effectivePermissions>>
    /\ UNCHANGED <<policyOutcome, globals, received, policy, assignedRoles, checking>>

RECURSIVE ResolveCached(_, _, _, _, _, _)
\* resolveEffectivePermissions run to its return against a roleCache that
\* holds the roles it meets: no turn of the loop awaits.  q, c, done and acc
\* are queue, the iterator's position, processed and effectivePermissions;
\* missed lists the roles roleCache.has() was false for (getRoleDetails would
\* be called for them; their details count as empty here)
ResolveCached(q, c, done, acc, missed, cache) ==
    IF c >= Len(q) THEN [permissions |-> acc, missed |-> missed]
    ELSE LET r == q[c + 1] IN
         IF r \in done THEN ResolveCached(q, c + 1, done, acc, missed, cache)
         ELSE LET hit == r \in DOMAIN cache
                  details == IF hit THEN cache[r] ELSE EmptyDetails
              IN ResolveCached(EnqueueIncluded(q, details.includedRoles, done \cup {r}),
                               c + 1, done \cup {r},
                               SetAddAll(acc, details.permissions),
                               IF hit THEN missed ELSE Append(missed, r), cache)

\* resolveEffectivePermissions(rolesToResolve, projectId, roleCache)
ResolveWithCache(rolesToResolve, cache) ==
    ResolveCached(SetAddAll(<<>>, rolesToResolve), 0, {}, <<>>, <<>>, cache)

\* the answers the provider can give to a request for name: the one it has
\* given before, if any
Answers(name) ==
    IF name \notin DOMAIN catalog THEN {}
    ELSE IF catalog[name] = Unasked THEN RoleResponses(name)
    ELSE {catalog[name]}

\* the answers that name at most one included role
ShortAnswers(name) == {resp \in Answers(name) : Len(resp.includedRoles) <= 1}

\* Rethrow with one retry of the failed request before giving up
RethrowAfterRetry(i, resp) ==
    IF Len(roleRequests[i]) < 2 \/ roleRequests[i][Len(roleRequests[i]) - 1]
                                      # roleRequests[i][Len(roleRequests[i])]
    THEN /\ roleRequests' = [roleRequests EXCEPT ![i] = Append(@, @[Len(@)])]
         /\ detailCalls' = [detailCalls EXCEPT ![i] = Append(@, @[Len(@)])]
         /\ UNCHANGED <<response, pc, roleName, policyRequests>>
    ELSE /\ response' = [response EXCEPT ![i] = PermissionsCatch(resp)]
         /\ pc' = [pc EXCEPT ![i] = "done"]
         /\ UNCHANGED <<roleName, logs>>

\* line 139 rethrows the error: resolveEffectivePermissions rejects and the
\* handler's catch block answers (lines 270-280)
Rethrow(i, resp) ==
    /\ response' = [response EXCEPT ![i] = PermissionsCatch(resp)]
    /\ pc' = [pc EXCEPT ![i] = "done"]
    /\ UNCHANGED <<roleName, logs>>

\* the provider answers the request getRoleDetails is waiting for
RoleDetailsReturned(i, resp) ==
    /\ pc[i] = "getRoleDetails"
    /\ resp \in Answers(RequestedName(roleName[i]))
    /\ catalog' = [catalog EXCEPT ![RequestedName(roleName[i])] = resp]
    /\ IF resp.kind = "ok" \/ IsNotFound(resp)
       THEN LET details == IF resp.kind = "ok"
                           THEN DetailsOfResponse(roleName[i], resp)
                           ELSE EmptyDetails IN
            /\ roleCache' = [roleCache EXCEPT ![i] = CacheSet(@, roleName[i], details)]
            /\ processed' = processed
            /\ Accumulate(i, details)
            /\ pc' = [pc EXCEPT ![i] = "resolve"]
            /\ UNCHANGED <<response, roleName, logs>>
       ELSE /\ Rethrow(i, resp)
            /\ UNCHANGED <<roleCache, processed, effectivePermissions, queue>>
    /\ UNCHANGED <<policyOutcome, globals, received, policy, assignedRoles, cursor, checking>>

(***************************************************************************)
(* POST /check-iam-permissions (server.js 202-281).                        *)
(***************************************************************************)
Reply(i, r) ==
    /\ response' = [response EXCEPT ![i] = r]
    /\ pc' = [pc EXCEPT ![i] = "done"]

\* await cloudResourceManager.projects.getIamPolicy({ resource: projectId })
RequestPolicy(i, next) ==
    /\ policyRequests' = [policyRequests EXCEPT ![i] = @ + 1]
    /\ pc' = [pc EXCEPT ![i] = next]

\* the request arrives: validation and the check of the global clients
CheckIamPermissions(i, projectId, email) ==
    /\ pc[i] = "idle"
    /\ endpoint' = [endpoint EXCEPT ![i] = "/check-iam-permissions"]
    /\ body' = [body EXCEPT ![i] = [projectId |-> projectId, email |-> email, role |-> Undefined]]
    /\ IF IsBlank(projectId) \/ IsBlank(email)
       THEN Reply(i, BadRequest) /\ UNCHANGED policyRequests
       ELSE IF ~cloudResourceManager \/ ~iam
       THEN \* await initializeGoogleClients()
            /\ pc' = [pc EXCEPT ![i] = "initializeGoogleClients"]
            /\ UNCHANGED <<response, policyRequests>>
       ELSE RequestPolicy(i, "getIamPolicy") /\ UNCHANGED response
    /\ UNCHANGED <<policyOutcome, globals, catalog, policy, assignedRoles, resolving, roleName,
                   checking, detailCalls, roleRequests>>

\* the re-initialization the handler awaits completes (lines 215-219)
ClientsReinitialized(i, ok) ==
    /\ pc[i] = "initializeGoogleClients"
    /\ ClientsAfterInit(ok)
    /\ IF ~cloudResourceManager' \/ ~iam'
       THEN Reply(i, ClientsFailed) /\ UNCHANGED policyRequests
       ELSE RequestPolicy(i, "getIamPolicy") /\ UNCHANGED response
    /\ UNCHANGED <<policyOutcome, startup, catalog, received, policy, assignedRoles, resolving, roleName,
                   checking, detailCalls, roleRequests>>

\* the Policy Provider answers (lines 231-256, or the catch block)
PolicyReturned(i, resp) ==
    /\ pc[i] = "getIamPolicy"
    /\ resp \in PolicyResponses
    /\ policyOutcome' = [policyOutcome EXCEPT ![i] = Outcome(resp)]
    /\ IF resp.kind = "error"
       THEN /\ Reply(i, PermissionsCatch(resp))
            /\ UNCHANGED <<policy, assignedRoles, resolving>>
       ELSE LET assigned == FindAssignedRoles(resp.data, body[i].email.v) IN
            /\ policy' = [policy EXCEPT ![i] = resp.data]
            /\ assignedRoles' = [assignedRoles EXCEPT ![i] = assigned]
            /\ IF Len(assigned) = 0
               THEN /\ Reply(i, PermissionsSuccess(<<>>, <<>>))
                    /\ UNCHANGED resolving
               ELSE \* new Map(); resolveEffectivePermissions(assignedRoles, ...)
                    /\ roleCache' = [roleCache EXCEPT ![i] = NoCache]
                    /\ effectivePermissions' = [effectivePermissions EXCEPT ![i] = <<>>]
                    /\ queue' = [queue EXCEPT ![i] = SetAddAll(<<>>, assigned)]
                    /\ processed' = [processed EXCEPT ![i] = {}]
                    /\ cursor' = [cursor EXCEPT ![i] = 0]
                    /\ pc' = [pc EXCEPT ![i] = "resolve"]
                    /\ UNCHANGED response
    /\ UNCHANGED <<globals, catalog, received, roleName, checking, logs>>

(***************************************************************************)
(* POST /api/v1/check-iam-role (server.js 300-302).                        *)
(***************************************************************************)
CheckIamRoleV1(i, email, role) ==
    /\ pc[i] = "idle"
    /\ endpoint' = [endpoint EXCEPT ![i] = "/api/v1/check-iam-role"]
    /\ body' = [body EXCEPT ![i] = [projectId |-> Undefined, email |-> email, role |-> role]]
    /\ Reply(i, RoleSuccess(TRUE, <<>>, <<>>))
    /\ UNCHANGED <<policyOutcome, globals, catalog, policy, assignedRoles, resolving, roleName,
                   checking, logs>>

(***************************************************************************)
(* POST /api/check-iam-role (server.js 304-399).                           *)
(***************************************************************************)
\* the request arrives; projectId is process.env.GOOGLE_CLOUD_PROJECT_ID
CheckIamRole(i, projectId, email, role) ==
    /\ pc[i] = "idle"
    /\ endpoint' = [endpoint EXCEPT ![i] = "/api/check-iam-role"]
    /\ body' = [body EXCEPT ![i] = [projectId |-> projectId, email |-> email, role |-> role]]
    /\ IF IsBlank(projectId) \/ IsBlank(email) \/ IsBlank(role)
       THEN Reply(i, BadRequest)
       ELSE \* await authClient.getClient()
            pc' = [pc EXCEPT ![i] = "getClient"] /\ UNCHANGED response
    /\ UNCHANGED <<policyOutcome, globals, catalog, policy, assignedRoles, resolving, roleName,
                   checking, logs>>

\* getClient() settles; a rejection goes to the outer catch block
ClientReturned(i, resp) ==
    /\ pc[i] = "getClient"
    /\ resp \in {Failure(e) : e \in Errors} \cup {Response("ok", 200, "", FALSE, <<>>, <<>>)}
    /\ IF resp.kind = "error"
       THEN Reply(i, RoleCatch(resp)) /\ UNCHANGED policyRequests
       ELSE RequestPolicy(i, "roleGetIamPolicy") /\ UNCHANGED response
    /\ UNCHANGED <<policyOutcome, globals, catalog, received, policy, assignedRoles, resolving, roleName,
                   checking, detailCalls, roleRequests>>

\* the Policy Provider answers (lines 339-360, or the outer catch block)
RolePolicyReturned(i, resp) ==
    /\ pc[i] = "roleGetIamPolicy"
    /\ resp \in PolicyResponses
    /\ policyOutcome' = [policyOutcome EXCEPT ![i] = Outcome(resp)]
    /\ IF resp.kind = "error"
       THEN /\ Reply(i, RoleCatch(resp))
            /\ UNCHANGED <<policy, checking>>
       ELSE LET roles == FindUserRoles(resp.data, body[i].email.v) IN
            /\ policy' = [policy EXCEPT ![i] = resp.data]
            /\ userRoles' = [userRoles EXCEPT ![i] = roles]
            /\ hasRole' = [hasRole EXCEPT ![i] = HasRoleOf(resp.data, roles, body[i].role.v)]
            /\ permissions' = [permissions EXCEPT ![i] = <<>>]
            /\ roleIndex' = [roleIndex EXCEPT ![i] = 0]
            /\ pc' = [pc EXCEPT ![i] = "roleLoop"]
            /\ UNCHANGED response
    /\ UNCHANGED <<globals, catalog, received, assignedRoles, resolving, roleName, logs>>

\* one turn of `for (const role of userRoles)`, up to the next await
RoleLoopNext(i) ==
    /\ pc[i] = "roleLoop"
    /\ IF roleIndex[i] >= Len(userRoles[i])
       THEN \* lines 380-386
            /\ Reply(i, RoleSuccess(hasRole[i], userRoles[i], permissions[i]))
            /\ UNCHANGED <<roleIndex, roleName, roleRequests>>
       ELSE LET r == userRoles[i][roleIndex[i] + 1] IN
            /\ roleIndex' = [roleIndex EXCEPT ![i] = @ + 1]
            /\ UNCHANGED response
            /\ IF ~iam
               THEN \* iam is undefined: the TypeError is caught at line 375
                    UNCHANGED <<pc, roleName, roleRequests>>
               ELSE \* await iam.roles.get({ name: role })
                    /\ roleRequests' = [roleRequests EXCEPT ![i] = Append(@, r)]
                    /\ roleName' = [roleName EXCEPT ![i] = r]
                    /\ pc' = [pc EXCEPT ![i] = "rolesGet"]
    /\ UNCHANGED <<policyOutcome, globals, catalog, received, policy, assignedRoles, resolving,
                   userRoles, hasRole, permissions, detailCalls, policyRequests>>

\* PermissionsAfter with the catch block emptying permissions
PermissionsAfterReset(perms, resp) ==
    IF resp.kind = "ok" THEN PermissionsOrEmpty(resp) ELSE <<>>

\* permissions = res.data.includedPermissions || [] when the promise resolved;
\* the catch block of line 375 leaves permissions as it was
PermissionsAfter(perms, resp) ==
    IF resp.kind = "ok" THEN PermissionsOrEmpty(resp) ELSE perms

\* iam.roles.get settles (line 372, or the inner catch block)
RoleReturned(i, resp) ==
    /\ pc[i] = "rolesGet"
    /\ resp \in Answers(roleName[i])
    /\ catalog' = [catalog EXCEPT ![roleName[i]] = resp]
    /\ roleName' = [roleName EXCEPT ![i] = NoRole]
    /\ permissions' = [permissions EXCEPT ![i] = PermissionsAfter(@, resp)]
    /\ pc' = [pc EXCEPT ![i] = "roleLoop"]
    /\ UNCHANGED <<policyOutcome, globals, received, policy, assignedRoles, resolving,
                   userRoles, hasRole, roleIndex, response, logs>>

(***************************************************************************)
(* The system: the three routes, one request, and a provider whose         *)
(* includedRoles lists name at most one role.                              *)
(***************************************************************************)
Next ==
    \/ \E i \in Requests, projectId \in ProjectIdValues, email \in EmailValues :
          CheckIamPermissions(i, projectId, email)
    \/ \E i \in Requests, ok \in BOOLEAN : ClientsReinitialized(i, ok)
    \/ \E i \in Requests :
          \E resp \in (IF pc[i] = "getIamPolicy" THEN PolicyResponses ELSE {}) :
              PolicyReturned(i, resp)
    \/ \E i \in Requests : ResolveNext(i)
    \/ \E i \in Requests :
          \E resp \in (IF pc[i] = "getRoleDetails"
                       THEN ShortAnswers(RequestedName(roleName[i])) ELSE {}) :
              RoleDetailsReturned(i, resp)
    \/ \E i \in Requests, email \in EmailValues, role \in RoleValues :
          CheckIamRoleV1(i, email, role)
    \/ \E i \in Requests, projectId \in ProjectIdValues, email \in EmailValues,
          role \in RoleValues : CheckIamRole(i, projectId, email, role)
    \/ \E i \in Requests, resp \in {Failure(e) : e \in Errors}
                                     \cup {Response("ok", 200, "", FALSE, <<>>, <<>>)} :
          ClientReturned(i, resp)
    \/ \E i \in Requests :
          \E resp \in (IF pc[i] = "roleGetIamPolicy" THEN PolicyResponses ELSE {}) :
              RolePolicyReturned(i, resp)
    \/ \E i \in Requests : RoleLoopNext(i)
    \/ \E i \in Requests :
          \E resp \in (IF pc[i] = "rolesGet" THEN ShortAnswers(roleName[i]) ELSE {}) :
              RoleReturned(i, resp)

Spec == Init /\ [][Next]_vars

(***************************************************************************)
(* resolveEffectivePermissions on its own: the states in which the handler *)
(* calls it and the steps of the call, with includedRoles lists of up to   *)
(* MaxIncl roles.                                                          *)
(***************************************************************************)
\* the Sets of assigned roles the call is started with: every single role,
\* two roles that may include each other, a custom and a predefined role
InitialRoleSets ==
    {<<r>> : r \in RoleNames} \cup {<<rViewer, rEditor>>, <<rCustom, rViewer>>}

\* line 256 is reached with assignedRoles = roles: the policy binds user:a to
\* each of them and the request is for a
ResolveInit ==
    \E roles \in InitialRoleSets :
        /\ cloudResourceManager = TRUE
        /\ iam = TRUE
        /\ startup = "finished"
        /\ catalog = [name \in RoleNames |-> Unasked]
        /\ pc = [i \in {1} |-> "resolve"]
        /\ endpoint = [i \in {1} |-> "/check-iam-permissions"]
        /\ body = [i \in {1} |-> [projectId |-> Str(<<"p1">>), email |-> Str(<<"a">>),
                                  role |-> Undefined]]
        /\ policyOutcome = [i \in {1} |-> Outcome(PolicyResponse("ok", 200, "", NoPolicy))]
        /\ policy = [i \in {1} |->
                       PolicyData("bindings",
                                  [k \in 1..Len(roles) |-> Binding(roles[k], TRUE, <<userA>>)])]
        /\ assignedRoles = [i \in {1} |-> roles]
        /\ roleCache = [i \in {1} |-> NoCache]
        /\ queue = [i \in {1} |-> SetAddAll(<<>>, roles)]
        /\ cursor = [i \in {1} |-> 0]
        /\ processed = [i \in {1} |-> {}]
        /\ effectivePermissions = [i \in {1} |-> <<>>]
        /\ roleName = [i \in {1} |-> NoRole]
        /\ userRoles = [i \in {1} |-> <<>>]
        /\ hasRole = [i \in {1} |-> FALSE]
        /\ permissions = [i \in {1} |-> <<>>]
        /\ roleIndex = [i \in {1} |-> 0]
        /\ response = [i \in {1} |-> NoResponse]
        /\ detailCalls = [i \in {1} |-> <<>>]
        /\ roleRequests = [i \in {1} |-> <<>>]
        /\ policyRequests = [i \in {1} |-> 1]

ResolveStep ==
    \/ \E i \in Requests : ResolveNext(i)
    \/ \E i \in Requests :
          \E resp \in (IF pc[i] = "getRoleDetails"
                       THEN Answers(RequestedName(roleName[i])) ELSE {}) :
              RoleDetailsReturned(i, resp)

\* every provider call returns and every continuation is run
ResolveSpec == ResolveInit /\ [][ResolveStep]_vars /\ WF_vars(ResolveStep)

(***************************************************************************)
(* Two requests of POST /check-iam-permissions received while the start-up *)
(* initialization of line 94 is still running: the handlers interleave at  *)
(* their awaits with each other and with the start-up call.                *)
(***************************************************************************)
ConcurrentInit ==
    /\ cloudResourceManager = FALSE
    /\ iam = FALSE
    /\ startup = "pending"
    /\ RequestsIdle(2)

\* the e-mails of the two requests: a valid and a missing one
ConcurrentEmails == {Str(<<"a">>), Undefined}

\* the answers of the Policy Provider: permission denied, one role bound to
\* the principal, two roles bound to it
ConcurrentPolicyResponses ==
    {PolicyResponse("error", 403, "forbidden", NoPolicy),
     PolicyResponse("ok", 200, "", PolicyData("bindings", <<Binding(rViewer, TRUE, <<userA>>)>>)),
     PolicyResponse("ok", 200, "",
                    PolicyData("bindings", <<Binding(rEditor, TRUE, <<userA>>),
                                             Binding(rViewer, TRUE, <<userA>>)>>))}

ConcurrentNext ==
    \/ \E ok \in BOOLEAN : StartupInitialized(ok)
    \/ \E i \in Requests, email \in ConcurrentEmails :
          CheckIamPermissions(i, Str(<<"p1">>), email)
    \/ \E i \in Requests, ok \in BOOLEAN : ClientsReinitialized(i, ok)
    \/ \E i \in Requests :
          \E resp \in (IF pc[i] = "getIamPolicy" THEN ConcurrentPolicyResponses ELSE {}) :
              PolicyReturned(i, resp)
    \/ \E i \in Requests : ResolveNext(i)
    \/ \E i \in Requests :
          \E resp \in (IF pc[i] = "getRoleDetails"
                       THEN ShortAnswers(RequestedName(roleName[i])) ELSE {}) :
              RoleDetailsReturned(i, resp)

ConcurrentSpec == ConcurrentInit /\ [][ConcurrentNext]_vars

(***************************************************************************)
(* The role-inclusion graph the provider has revealed, and what a          *)
(* resolution over it has to return.                                       *)
(***************************************************************************)
IsPermissionsCall(i) == endpoint[i] = "/check-iam-permissions"
IsRoleCall(i) == endpoint[i] = "/api/check-iam-role"

Succeeded(i) == pc[i] = "done" /\ response[i].status = 200

\* the role details of r according to the provider's answers
ResolvedDetails(r) ==
    IF RoleKind(r) = "unrecognized" THEN EmptyDetails
    ELSE IF catalog[RequestedName(r)].kind = "ok"
         THEN DetailsOfResponse(r, catalog[RequestedName(r)])
         ELSE EmptyDetails

RECURSIVE Closure(_)
\* the roles reachable from S along includedRoles, S included
Closure(S) ==
    LET T == S \cup UNION {Range(ResolvedDetails(r).includedRoles) : r \in S}
    IN IF T = S THEN S ELSE Closure(T)

\* the union of the direct permissions of the roles reachable from S
ExpectedPermissions(S) ==
    UNION {Range(ResolvedDetails(r).permissions) : r \in Closure(S)}

\* the provider has answered a request for r with a response
Answered(r) == catalog[RequestedName(r)].kind = "ok"

\* the provider has answered name with an error other than not-found
IsFatal(name) == catalog[name].kind = "error" /\ catalog[name].code # 404

\* the k-th role request of call i has been answered
Settled(i, k) == ~(pc[i] \in {"getRoleDetails", "rolesGet"} /\ k = Len(roleRequests[i]))

NoDuplicates(seq) == \A j, k \in 1..Len(seq) : j # k => seq[j] # seq[k]

(***************************************************************************)
(* C1: resolveEffectivePermissions terminates on every catalog, cyclic     *)
(* ones included, when every provider call returns; on the two-role cycle  *)
(* viewer = {p1} includes editor = {p2} includes viewer, resolving from    *)
(* {viewer} yields exactly {p1, p2}.                                       *)
(***************************************************************************)
CycleEntered(i) ==
    /\ IsPermissionsCall(i) /\ Succeeded(i)
    /\ assignedRoles[i] = <<rViewer>>
    /\ Answered(rViewer) /\ catalog[rViewer].includedRoles = <<rEditor>>

TwoRoleCycle(i) ==
    /\ CycleEntered(i)
    /\ Answered(rEditor) /\ catalog[rEditor].includedRoles = <<rViewer>>

C1_CycleSafety ==
    /\ \A i \in {1} : (pc[i] \in {"resolve", "getRoleDetails"}) ~> (pc[i] = "done")
    /\ [](\A i \in Requests :
             /\ CycleEntered(i) => catalog[rEditor] # Unasked
             /\ TwoRoleCycle(i) => Range(effectivePermissions[i]) = {"p1", "p2"})

C1_Witness == TwoRoleCycle(1) /\ Range(effectivePermissions[1]) = {"p1", "p2"}

(***************************************************************************)
(* C2: when no provider call fails, the set resolveEffectivePermissions    *)
(* returns is exactly the union of the direct permissions of the roles     *)
(* reachable from the initial roles along includedRoles, and every such    *)
(* role has been fetched.                                                  *)
(***************************************************************************)
NoCallFailed(i) == \A k \in 1..Len(roleRequests[i]) : catalog[roleRequests[i][k]].kind = "ok"

C2_ExactClosure ==
    \A i \in Requests :
        (IsPermissionsCall(i) /\ Succeeded(i) /\ assignedRoles[i] # <<>> /\ NoCallFailed(i))
        => /\ Range(effectivePermissions[i]) = ExpectedPermissions(Range(assignedRoles[i]))
           /\ Closure(Range(assignedRoles[i])) = Range(detailCalls[i])

\* roles/editor including roles/viewer yields both roles' permissions
C2_Witness ==
    /\ IsPermissionsCall(1) /\ Succeeded(1) /\ NoCallFailed(1)
    /\ assignedRoles[1] = <<rEditor>>
    /\ catalog[rEditor].includedRoles = <<rViewer>>
    /\ catalog[rViewer].includedRoles = <<>>
    /\ Range(effectivePermissions[1]) = {"p1", "p2"}

(***************************************************************************)
(* C3: within one resolution getRoleDetails is invoked at most once for a  *)
(* role identifier, and an invocation asks the provider at most once: a    *)
(* failed call is not retried.                                             *)
(***************************************************************************)
C3_AtMostOnce ==
    \A i \in Requests :
        IsPermissionsCall(i) =>
            /\ NoDuplicates(detailCalls[i])
            /\ Len(roleRequests[i]) <= Len(detailCalls[i])

\* a role both directly assigned and included, on a cycle, and a failed call
C3_Witness ==
    /\ IsPermissionsCall(1) /\ pc[1] = "done"
    /\ assignedRoles[1] = <<rViewer, rEditor>>
    /\ Answered(rViewer) /\ catalog[rViewer].includedRoles = <<rEditor, rViewer>>
    /\ IsFatal(rEditor)
    /\ detailCalls[1] = <<rViewer, rEditor>>

(***************************************************************************)
(* C4: an error other than not-found for a role reached during             *)
(* POST /check-iam-permissions ends the call with a 403 or 500 response    *)
(* without assignedRoles and effectivePermissions, and no role is fetched  *)
(* after the failing one.                                                  *)
(***************************************************************************)
C4_FailFast ==
    \A i \in Requests :
        IsPermissionsCall(i) =>
            \A k \in 1..Len(roleRequests[i]) :
                (IsFatal(roleRequests[i][k]) /\ Settled(i, k))
                => /\ k = Len(roleRequests[i])
                   /\ pc[i] = "done"
                   /\ response[i].status \in {403, 500}
                   /\ response[i].fields \cap {"assignedRoles", "effectivePermissions"} = {}

\* the second role fetched fails after the first has contributed permissions
C4_Witness ==
    /\ IsPermissionsCall(1) /\ pc[1] = "done"
    /\ Len(roleRequests[1]) = 2 /\ IsFatal(roleRequests[1][2])
    /\ effectivePermissions[1] # <<>>
    /\ response[1].status = 403

(***************************************************************************)
(* The principal of a request and the roles a policy binds it to.          *)
(***************************************************************************)
\* the member identifiers an e-mail is looked up under
Candidates(email) ==
    IF \E k \in 1..Len(email) : email[k] = ":" THEN {email}
    ELSE {<<"user", ":">> \o email, <<"serviceAccount", ":">> \o email}

\* the roles of the bindings whose members hold one of the identifiers
RolesBoundTo(data, identifiers) ==
    IF data.kind # "bindings" THEN {}
    ELSE {data.bindings[k].role : k \in
            {j \in 1..Len(data.bindings) :
                /\ data.bindings[j].hasMembers
                /\ Range(data.bindings[j].members) \cap identifiers # {}}}

PolicyFetched(i) == policy[i].kind # "none"

Email(i) == body[i].email.v

(***************************************************************************)
(* C5 (as claimed): in POST /api/check-iam-role a role-detail fetch that   *)
(* fails with an error other than not-found makes the whole call fail.     *)
(***************************************************************************)
C5_RoleCallFailsFast ==
    \A i \in Requests :
        (IsRoleCall(i) /\ pc[i] = "done"
           /\ \E k \in 1..Len(roleRequests[i]) : IsFatal(roleRequests[i][k]))
        => response[i].status # 200

(***************************************************************************)
(* C6: a role the provider reports as not found (404) resolves to empty    *)
(* details and does not fail POST /check-iam-permissions: the call         *)
(* succeeds with the permissions of the roles reachable through the other  *)
(* roles.                                                                  *)
(***************************************************************************)
SomeNotFound(i) == \E k \in 1..Len(roleRequests[i]) : catalog[roleRequests[i][k]].code = 404
NoneFatal(i) == \A k \in 1..Len(roleRequests[i]) : ~IsFatal(roleRequests[i][k])

C6_MissingRoleTolerated ==
    \A i \in Requests :
        IsPermissionsCall(i) =>
            /\ \A r \in DOMAIN roleCache[i] :
                   (RoleKind(r) # "unrecognized" /\ catalog[RequestedName(r)].code = 404)
                   => roleCache[i][r] = EmptyDetails
            /\ (pc[i] = "done" /\ SomeNotFound(i) /\ NoneFatal(i))
               => /\ response[i].status = 200
                  /\ Range(response[i].effectivePermissions)
                       = ExpectedPermissions(Range(assignedRoles[i]))

\* the custom role is gone, the viewer's permission is still returned
C6_Witness ==
    /\ IsPermissionsCall(1) /\ Succeeded(1)
    /\ assignedRoles[1] = <<rCustom, rViewer>>
    /\ catalog[rCustom].code = 404
    /\ Answered(rViewer)
    /\ response[1].effectivePermissions = <<"p1">>

(***************************************************************************)
(* C7 (as claimed): a check-iam-role endpoint answers hasRole = true if    *)
(* and only if the requested role or roles/owner is among the roles the    *)
(* policy binds to the principal.                                          *)
(***************************************************************************)
C7_HasRoleIffBound ==
    \A i \in Requests :
        (Succeeded(i) /\ "hasRole" \in response[i].fields
           /\ ~IsBlank(body[i].email) /\ ~IsBlank(body[i].role))
        => (response[i].hasRole
              <=> ({body[i].role.v, rOwner}
                     \cap RolesBoundTo(policy[i], Candidates(Email(i))) # {}))

(***************************************************************************)
(* C8 (as claimed): the assigned roles are exactly the roles of the        *)
(* bindings whose members hold "user:<email>" or "serviceAccount:<email>". *)
(***************************************************************************)
C8_PrefixedCandidates ==
    \A i \in Requests :
        (IsPermissionsCall(i) /\ PolicyFetched(i))
        => Range(assignedRoles[i])
             = RolesBoundTo(policy[i], {<<"user", ":">> \o Email(i),
                                        <<"serviceAccount", ":">> \o Email(i)})

(***************************************************************************)
(* C8 (amended): the assigned roles are exactly the roles of the bindings  *)
(* whose members hold a candidate identifier: "user:<email>" or            *)
(* "serviceAccount:<email>" for an e-mail without ':', the e-mail itself   *)
(* for an e-mail that contains ':'.                                        *)
(***************************************************************************)
C8_AssignedRoles ==
    \A i \in Requests :
        (IsPermissionsCall(i) /\ PolicyFetched(i))
        => Range(assignedRoles[i]) = RolesBoundTo(policy[i], Candidates(Email(i)))

\* a binding without members, one of another user and of the service account
C8_Witness ==
    /\ IsPermissionsCall(1)
    /\ policy[1] = PolicyData("bindings", <<Binding(rEditor, FALSE, <<>>),
                                            Binding(rViewer, TRUE, <<userB, saA>>)>>)
    /\ Email(1) = <<"a">>
    /\ assignedRoles[1] = <<rViewer>>

(***************************************************************************)
(* C9 (as claimed): for the same policy and e-mail,                        *)
(* POST /api/check-iam-role finds the set of assigned roles that           *)
(* POST /check-iam-permissions finds.                                      *)
(***************************************************************************)
C9_SameAssignedRoles ==
    \A i \in Requests :
        (IsRoleCall(i) /\ PolicyFetched(i))
        => Range(userRoles[i]) = Range(FindAssignedRoles(policy[i], Email(i)))

(***************************************************************************)
(* C10: when no binding of the fetched policy holds the principal,         *)
(* POST /check-iam-permissions succeeds with empty assignedRoles and       *)
(* effectivePermissions and has asked the Role Metadata Provider nothing.  *)
(***************************************************************************)
C10_NoBindingNoFetch ==
    \A i \in Requests :
        (IsPermissionsCall(i) /\ PolicyFetched(i)
           /\ RolesBoundTo(policy[i], Candidates(Email(i))) = {})
        => /\ Succeeded(i)
           /\ response[i].assignedRoles = <<>>
           /\ response[i].effectivePermissions = <<>>
           /\ {"assignedRoles", "effectivePermissions"} \subseteq response[i].fields
           /\ roleRequests[i] = <<>>
           /\ detailCalls[i] = <<>>

\* the policy binds roles to another user and to the service account of the
\* e-mail, the request names the user
C10_Witness ==
    /\ IsPermissionsCall(1) /\ Succeeded(1)
    /\ policy[1] = PolicyData("bindings", <<Binding(rViewer, TRUE, <<userB, saA>>),
                                            Binding(rEditor, FALSE, <<>>)>>)
    /\ Email(1) = userA
    /\ roleRequests[1] = <<>>

(***************************************************************************)
(* Shapes of role names: "organizations/{O}/roles/{R}", the project shape  *)
(* with exactly four segments, and the names of no known shape.            *)
(***************************************************************************)
IsOrganizationRole(parts) ==
    Len(parts) = 4 /\ parts[1] = "organizations" /\ parts[3] = "roles"

ExactProjectRole(parts) ==
    Len(parts) = 4 /\ parts[1] = "projects" /\ parts[3] = "roles"

MatchesNoShape(parts) ==
    /\ ~(Len(parts) >= 2 /\ parts[1] = "roles")
    /\ ~(Len(parts) >= 4 /\ parts[1] \in {"projects", "organizations"} /\ parts[3] = "roles")

\* the number of getRoleDetails invocations of call i for a role that is in S
Invocations(i, S) == Cardinality({k \in 1..Len(detailCalls[i]) : detailCalls[i][k] \in S})

(***************************************************************************)
(* C11: a project custom role resolves with includedRoles empty whatever   *)
(* the provider's response carries, and no role enters the worklist        *)
(* because a custom role named it: every role of the worklist is assigned  *)
(* or named by the response for a predefined role.                         *)
(***************************************************************************)
C11_CustomNotNested ==
    \A i \in Requests :
        IsPermissionsCall(i) =>
            /\ \A r \in DOMAIN roleCache[i] :
                   (r # <<>> /\ r[1] # "roles") => roleCache[i][r].includedRoles = <<>>
            /\ \A q \in Range(queue[i]) :
                   \/ q \in Range(assignedRoles[i])
                   \/ \E r \in PredefinedRoles :
                          catalog[r].kind = "ok" /\ q \in Range(catalog[r].includedRoles)

\* the response for the custom role names roles/viewer, which is not fetched
C11_Witness ==
    /\ IsPermissionsCall(1) /\ Succeeded(1)
    /\ assignedRoles[1] = <<rCustom>>
    /\ catalog[rCustom].kind = "ok" /\ catalog[rCustom].includedRoles = <<rViewer>>
    /\ detailCalls[1] = <<rCustom>>
    /\ response[1].effectivePermissions = <<"p4">>

(***************************************************************************)
(* C12 (as claimed): an assigned role organizations/{O}/roles/{R} is       *)
(* fetched from the provider and the permissions the provider answers for  *)
(* it are in effectivePermissions.                                         *)
(***************************************************************************)
C12_OrganizationRoleFetched ==
    \A i \in Requests :
        (IsPermissionsCall(i) /\ Succeeded(i))
        => \A r \in Range(assignedRoles[i]) :
               IsOrganizationRole(r)
               => /\ r \in Range(roleRequests[i])
                  /\ catalog[r].kind = "ok"
                     => Range(catalog[r].includedPermissions)
                          \subseteq Range(response[i].effectivePermissions)

(***************************************************************************)
(* C13 (as claimed): only a name of exactly four segments                  *)
(* projects/{P}/roles/{R} is a project custom role; a name with more       *)
(* segments resolves to empty details and the provider is not asked.       *)
(***************************************************************************)
C13_ExactlyFourSegments ==
    \A i \in Requests :
        IsPermissionsCall(i) =>
            /\ \A r \in DOMAIN roleCache[i] :
                   (r[1] = "projects" /\ Len(r) > 4) => roleCache[i][r] = EmptyDetails
            /\ Len(roleRequests[i])
                 <= Invocations(i, {r \in RoleNames : r[1] = "roles" \/ ExactProjectRole(r)})

Declares(r) ==
    IF catalog[r].kind = "error" THEN {} ELSE Range(DeclaredPermissions(r))

C15_Superset ==
    \A i \in Requests :
        (IsPermissionsCall(i) /\ Succeeded(i))
        => \A r \in Range(response[i].assignedRoles) :
               Declares(r) \subseteq Range(response[i].effectivePermissions)

(***************************************************************************)
(* C16: a second call of resolveEffectivePermissions with the same initial *)
(* roles and the cache the first call has filled returns the same          *)
(* permissions and asks the provider for no role.                          *)
(***************************************************************************)
C16_SameCacheSameResult ==
    \A i \in Requests :
        (IsPermissionsCall(i) /\ Succeeded(i) /\ assignedRoles[i] # <<>>)
        => LET again == ResolveWithCache(assignedRoles[i], roleCache[i]) IN
           /\ again.permissions = effectivePermissions[i]
           /\ again.missed = <<>>

\* the first call has fetched two roles, the second finds both in the cache
C16_Witness ==
    /\ IsPermissionsCall(1) /\ Succeeded(1)
    /\ assignedRoles[1] = <<rViewer>>
    /\ roleRequests[1] = <<rViewer, rEditor>>
    /\ DOMAIN roleCache[1] = {rViewer, rEditor}
    /\ ResolveWithCache(assignedRoles[1], roleCache[1]).permissions = <<"p1", "p2">>

(***************************************************************************)
(* C17: the set resolveEffectivePermissions returns does not depend on     *)
(* the order of the initial roles nor on the order of any includedRoles    *)
(* list: every reordering of both gives the set the call has returned.     *)
(***************************************************************************)
\* the arrangements of the elements of seq
Arrangements(seq) ==
    {[k \in 1..Len(seq) |-> seq[f[k]]] : f \in Permutations(1..Len(seq))}

RECURSIVE Reordered(_, _)
\* the role details of cache with the includedRoles lists of the roles in D
\* rearranged in every way
Reordered(cache, D) ==
    IF D = {} THEN {cache}
    ELSE LET r == CHOOSE x \in D : TRUE IN
         UNION {{[c EXCEPT ![r].includedRoles = l] :
                     l \in Arrangements(cache[r].includedRoles)} :
                c \in Reordered(cache, D \ {r})}

C17_OrderIndependent ==
    \A i \in Requests :
        (IsPermissionsCall(i) /\ Succeeded(i) /\ assignedRoles[i] # <<>>)
        => \A initial \in Arrangements(assignedRoles[i]) :
               \A cache \in Reordered(roleCache[i], DOMAIN roleCache[i]) :
                   LET other == ResolveWithCache(initial, cache) IN
                   /\ Range(other.permissions) = Range(effectivePermissions[i])
                   /\ other.missed = <<>>

\* two initial roles and a list of two included roles: the other order
\* collects the same permissions the other way round
C17_Witness ==
    /\ IsPermissionsCall(1) /\ Succeeded(1)
    /\ assignedRoles[1] = <<rViewer, rEditor>>
    /\ Answered(rEditor) /\ catalog[rEditor].includedRoles = <<rViewer, rEditor>>
    /\ effectivePermissions[1] = <<"p1", "p2">>
    /\ ResolveWithCache(<<rEditor, rViewer>>, roleCache[1]).permissions = <<"p2", "p1">>

(***************************************************************************)
(* C18: a success response of POST /check-iam-permissions lists            *)
(* assignedRoles and effectivePermissions in strictly ascending            *)
(* lexicographic order (so without duplicates), and they are the roles     *)
(* found and the permissions resolved.                                     *)
(***************************************************************************)
\* a is before b in the lexicographic order of their code units
LexLess(a, b) ==
    \E k \in 1..Len(b) :
        /\ \A j \in 1..(k - 1) : j <= Len(a) /\ a[j] = b[j]
        /\ (k > Len(a) \/ a[k] < b[k])

C18_SortedLists ==
    \A i \in Requests :
        (IsPermissionsCall(i) /\ Succeeded(i))
        => LET roles == response[i].assignedRoles
               perms == response[i].effectivePermissions IN
           /\ \A k \in 1..(Len(roles) - 1) :
                  LexLess(JoinUnits(roles[k]), JoinUnits(roles[k + 1]))
           /\ \A k \in 1..(Len(perms) - 1) :
                  LexLess(CodeUnits(perms[k]), CodeUnits(perms[k + 1]))
           /\ Range(roles) = Range(assignedRoles[i])
           /\ Range(perms) = Range(effectivePermissions[i])
           /\ Len(roles) = Len(assignedRoles[i])

\* the bindings and the resolution give both lists in descending order
C18_Witness ==
    /\ IsPermissionsCall(1) /\ Succeeded(1)
    /\ assignedRoles[1] = <<rOwner, rEditor>>
    /\ effectivePermissions[1] = <<"p3", "p1", "p2">>
    /\ response[1].assignedRoles = <<rEditor, rOwner>>
    /\ response[1].effectivePermissions = <<"p1", "p2", "p3">>

(***************************************************************************)
(* C19: a request of POST /check-iam-permissions or                        *)
(* POST /api/check-iam-role whose project id or e-mail (or role, for the   *)
(* latter) is missing, not a string, empty or only whitespace is answered  *)
(* 400 and no provider is asked anything.                                  *)
(***************************************************************************)
Malformed(x) == x.t # "string" \/ \A k \in 1..Len(x.v) : x.v[k] = " "

C19_RejectedBeforeProviders ==
    \A i \in Requests :
        ((IsPermissionsCall(i) \/ IsRoleCall(i))
           /\ (\/ Malformed(body[i].projectId)
               \/ Malformed(body[i].email)
               \/ (IsRoleCall(i) /\ Malformed(body[i].role))))
        => /\ pc[i] = "done"
           /\ response[i].status = 400
           /\ policyRequests[i] = 0
           /\ policyOutcome[i] = NoOutcome
           /\ roleRequests[i] = <<>>
           /\ detailCalls[i] = <<>>

\* a whitespace-only e-mail with a valid project id
C19_Witness ==
    /\ IsPermissionsCall(1)
    /\ body[1].projectId = Str(<<"p1">>)
    /\ body[1].email = Str(<<" ">>)
    /\ response[1].status = 400
    /\ policyRequests[1] = 0

(***************************************************************************)
(* C20 (as claimed): when the Policy Provider reports the policy as not    *)
(* found POST /check-iam-permissions succeeds with empty assignedRoles and *)
(* effectivePermissions.                                                   *)
(***************************************************************************)
C20_PolicyNotFoundIsEmpty ==
    \A i \in Requests :
        (IsPermissionsCall(i) /\ policyOutcome[i].kind = "error"
           /\ policyOutcome[i].code = 404)
        => /\ Succeeded(i)
           /\ {"assignedRoles", "effectivePermissions"} \subseteq response[i].fields
           /\ response[i].assignedRoles = <<>>
           /\ response[i].effectivePermissions = <<>>

(***************************************************************************)
(* C21: in POST /check-iam-permissions a failure of the policy fetch or of *)
(* a role fetch with code 403 or reason FORBIDDEN is answered 403 with the *)
(* required permissions, every other failure that is not a role's          *)
(* not-found is answered 500, and neither answer carries the success       *)
(* fields.                                                                 *)
(***************************************************************************)
\* the failures that ended call i: of the policy fetch, or of a role fetch
\* with an error other than not-found
FailuresOf(i) ==
    (IF policyOutcome[i].kind = "error" THEN {policyOutcome[i]} ELSE {})
      \cup {[kind |-> "error", code |-> catalog[roleRequests[i][k]].code,
             reason |-> catalog[roleRequests[i][k]].reason] :
               k \in {j \in 1..Len(roleRequests[i]) :
                         IsFatal(roleRequests[i][j]) /\ Settled(i, j)}}

Denied(e) == e.code = 403 \/ e.reason = "FORBIDDEN"

C21_DeniedIs403 ==
    \A i \in Requests :
        IsPermissionsCall(i) =>
            \A e \in FailuresOf(i) :
                /\ pc[i] = "done"
                /\ response[i].fields \cap {"assignedRoles", "effectivePermissions"} = {}
                /\ Denied(e) => /\ response[i].status = 403
                                /\ "requiredPermissions" \in response[i].fields
                /\ ~Denied(e) => /\ response[i].status = 500
                                 /\ response[i].fields = {"error", "details"}

\* a role fetch rejected with code 400 and reason FORBIDDEN
C21_Witness ==
    /\ IsPermissionsCall(1) /\ pc[1] = "done"
    /\ policyOutcome[1].kind = "ok"
    /\ roleRequests[1] = <<rViewer>>
    /\ catalog[rViewer].code = 400 /\ catalog[rViewer].reason = "FORBIDDEN"
    /\ response[1].status = 403

(***************************************************************************)
(* C23 (as claimed): the permissions field of a POST /api/check-iam-role   *)
(* response is the direct permission list of the last role of userRoles,   *)
(* also when the fetch for that role failed: never the list of an earlier  *)
(* role.                                                                   *)
(***************************************************************************)
\* the permissions the provider has answered for name; none after an error
DirectPermissions(name) ==
    IF catalog[name].kind = "ok" THEN catalog[name].includedPermissions ELSE <<>>

C23_LastRolePermissions ==
    \A i \in Requests :
        (IsRoleCall(i) /\ Succeeded(i) /\ userRoles[i] # <<>>)
        => response[i].permissions = DirectPermissions(userRoles[i][Len(userRoles[i])])

(***************************************************************************)
(* C23 (amended): the permissions field is the direct permission list of   *)
(* the last role of userRoles whose fetch succeeded, and empty when no     *)
(* fetch succeeded: a failed fetch leaves the list of an earlier role.     *)
(***************************************************************************)
\* the positions of the role requests of call i the provider answered
Fetched(i) == {k \in 1..Len(roleRequests[i]) : catalog[roleRequests[i][k]].kind = "ok"}

C23_LastFetchedPermissions ==
    \A i \in Requests :
        (IsRoleCall(i) /\ Succeeded(i))
        => /\ response[i].roles = userRoles[i]
           /\ response[i].permissions =
                IF Fetched(i) = {} THEN <<>>
                ELSE LET last == CHOOSE k \in Fetched(i) : \A j \in Fetched(i) : j <= k
                     IN catalog[roleRequests[i][last]].includedPermissions

\* owner then viewer: the viewer's list, not the union; and editor answered,
\* viewer failed: the editor's list stays
C23_Witness ==
    /\ IsRoleCall(1) /\ Succeeded(1)
    /\ userRoles[1] = <<rEditor, rViewer>>
    /\ roleRequests[1] = <<rEditor, rViewer>>
    /\ catalog[rEditor].kind = "ok" /\ catalog[rViewer].kind = "error"
    /\ response[1].permissions = <<"p2">>

(***************************************************************************)
(* C24: the provider is asked for a role only when the cache has no entry  *)
(* for it; a role resolved without an error is cached with the details     *)
(* that were used for it (empty ones for a not-found or unrecognized       *)
(* role); a role whose provider call raised has no entry; and an entry,    *)
(* once written, is not changed.                                           *)
(***************************************************************************)
\* call i is waiting for the provider's answer for r
Pending(i, r) == pc[i] = "getRoleDetails" /\ roleName[i] = r

\* the provider call of call i for r has raised
Raised(i, r) ==
    /\ RoleKind(r) # "unrecognized" /\ IsFatal(RequestedName(r)) /\ ~Pending(i, r)
    /\ detailCalls[i] # <<>> /\ detailCalls[i][Len(detailCalls[i])] = r

C24_CacheDiscipline ==
    /\ [](\A i \in Requests :
             IsPermissionsCall(i) =>
                 /\ \A r \in Range(detailCalls[i]) :
                        IF Pending(i, r) \/ Raised(i, r)
                        THEN r \notin DOMAIN roleCache[i]
                        ELSE r \in DOMAIN roleCache[i]
                                /\ roleCache[i][r] = ResolvedDetails(r)
                 /\ DOMAIN roleCache[i] \subseteq Range(detailCalls[i]))
    /\ [][\A i \in Requests :
             (IsPermissionsCall(i) /\ pc[i] # "getIamPolicy") =>
                 \A r \in DOMAIN roleCache[i] :
                     r \in DOMAIN roleCache'[i] /\ roleCache'[i][r] = roleCache[i][r]]_vars

\* the first role is cached, the call for the second has raised
C24_Witness ==
    /\ IsPermissionsCall(1) /\ pc[1] = "done"
    /\ detailCalls[1] = <<rViewer, rEditor>>
    /\ IsFatal(rEditor)
    /\ DOMAIN roleCache[1] = {rViewer}

(***************************************************************************)
(* C25 (as claimed): two role names that lead to a provider request for    *)
(* the same qualified name give one cache entry and one provider request   *)
(* within one resolution.                                                  *)
(***************************************************************************)
C25_NormalizedKeys ==
    \A i \in Requests :
        IsPermissionsCall(i) =>
            /\ NoDuplicates(roleRequests[i])
            /\ \A r1, r2 \in DOMAIN roleCache[i] :
                   (RoleKind(r1) # "unrecognized" /\ RoleKind(r2) # "unrecognized"
                      /\ RequestedName(r1) = RequestedName(r2))
                   => r1 = r2

(***************************************************************************)
(* C26: the classification of a role name is total and unambiguous: no     *)
(* name takes both the predefined and the project branch, a name that      *)
(* starts with "roles/" takes the predefined branch, and the details of    *)
(* such a role are the permissions and the includedRoles the provider      *)
(* answered.                                                               *)
(***************************************************************************)
\* role names and other strings, split at '/'
ClassifierInputs ==
    RoleNames \cup {<<"">>, <<"roles">>, <<"roles", "">>, <<"roles", "viewer", "extra">>,
                    <<"projects", "p1", "roles">>, <<"roles", "p1", "roles", "c1">>,
                    <<"projects", "roles", "roles", "c1">>}

C26_TotalClassification ==
    /\ \A n \in ClassifierInputs :
           /\ RoleKind(n) \in {"predefined", "projectCustom", "unrecognized"}
           /\ ~(StartsWithRoles(n) /\ IsProjectRole(n))
           /\ (Len(n) >= 2 /\ n[1] = "roles") => RoleKind(n) = "predefined"
    /\ \A i \in Requests :
           IsPermissionsCall(i) =>
               \A r \in DOMAIN roleCache[i] :
                   (Len(r) >= 2 /\ r[1] = "roles" /\ catalog[r].kind = "ok")
                   => roleCache[i][r] = [permissions |-> catalog[r].includedPermissions,
                                         includedRoles |-> catalog[r].includedRoles]

\* the included role of a predefined role is passed on and resolved
C26_Witness ==
    /\ IsPermissionsCall(1) /\ Succeeded(1)
    /\ assignedRoles[1] = <<rOwner>>
    /\ catalog[rOwner].kind = "ok" /\ catalog[rOwner].includedRoles = <<rEditor>>
    /\ roleCache[1][rOwner].includedRoles = <<rEditor>>
    /\ detailCalls[1] = <<rOwner, rEditor>>

(***************************************************************************)
(* C27: during resolveEffectivePermissions the processed roles are the     *)
(* roles the iterator has passed, they are in the worklist, the worklist   *)
(* holds the initial roles and only roles of their inclusion closure, and  *)
(* when the call returns the processed roles are the whole closure.        *)
(***************************************************************************)
C27_WorklistInvariant ==
    \A i \in Requests :
        (IsPermissionsCall(i) /\ assignedRoles[i] # <<>>)
        => /\ processed[i] = {queue[i][k] : k \in 1..cursor[i]}
           /\ processed[i] \subseteq Range(queue[i])
           /\ Range(assignedRoles[i]) \subseteq Range(queue[i])
           /\ Range(queue[i]) \subseteq Closure(Range(assignedRoles[i]))
           /\ Succeeded(i) => /\ processed[i] = Closure(Range(assignedRoles[i]))
                              /\ cursor[i] = Len(queue[i])

\* two roles were added to the worklist during the iteration and processed
C27_Witness ==
    /\ IsPermissionsCall(1) /\ Succeeded(1)
    /\ assignedRoles[1] = <<rOwner>>
    /\ queue[1] = <<rOwner, rEditor, rViewer>>
    /\ processed[1] = {rOwner, rEditor, rViewer}

(***************************************************************************)
(* C28: resolveEffectivePermissions leaves the Set of assigned roles as it *)
(* was passed: no step of the call changes it, and assignedRoles of a      *)
(* success response are exactly the roles the policy binds to the          *)
(* principal, none that is only included.                                  *)
(***************************************************************************)
C28_AssignedRolesKept ==
    /\ [](\A i \in Requests :
             (IsPermissionsCall(i) /\ Succeeded(i))
             => /\ Range(response[i].assignedRoles)
                     = RolesBoundTo(policy[i], Candidates(Email(i)))
                /\ Len(response[i].assignedRoles)
                     = Cardinality(RolesBoundTo(policy[i], Candidates(Email(i)))))
    /\ [][\A i \in Requests :
             pc[i] \in {"resolve", "getRoleDetails"} => assignedRoles'[i] = assignedRoles[i]]_vars

\* the worklist has grown by the included role, the response has not
C28_Witness ==
    /\ IsPermissionsCall(1) /\ Succeeded(1)
    /\ assignedRoles[1] = <<rEditor>>
    /\ queue[1] = <<rEditor, rViewer>>
    /\ response[1].assignedRoles = <<rEditor>>
    /\ response[1].effectivePermissions = <<"p1", "p2">>

(***************************************************************************)
(* C29: once the policy is fetched POST /api/check-iam-role answers, and   *)
(* its hasRole is a function of the policy, the e-mail and the role alone: *)
(* true exactly when a binding for the member identifier has the requested *)
(* role or roles/owner, whatever the provider answers for the roles.       *)
(***************************************************************************)
\* the identifier the e-mail is looked up under by this route
MemberOf(email) ==
    IF \E k \in 1..Len(email) : email[k] = ":" THEN email ELSE <<"user", ":">> \o email

C29_HasRoleFromPolicyOnly ==
    \A i \in Requests :
        (IsRoleCall(i) /\ pc[i] = "done" /\ policyOutcome[i].kind = "ok")
        => /\ Succeeded(i)
           /\ response[i].hasRole
                <=> ({body[i].role.v, rOwner}
                       \cap RolesBoundTo(policy[i], {MemberOf(Email(i))}) # {})

\* the principal has roles/editor, which includes the requested roles/viewer
C29_Witness ==
    /\ IsRoleCall(1) /\ Succeeded(1)
    /\ body[1].role = Str(rViewer)
    /\ userRoles[1] = <<rEditor>>
    /\ catalog[rEditor].kind = "ok" /\ catalog[rEditor].includedRoles = <<rViewer>>
    /\ response[1].hasRole = FALSE

(***************************************************************************)
(* C22: a call of POST /check-iam-permissions uses its own roleCache only: *)
(* the Map holds the roles the call itself resolved, the call asks for     *)
(* every role of its closure itself, whatever another call has cached,     *)
(* and its answer is the answer of the call run alone on the same policy   *)
(* and catalog.                                                            *)
(***************************************************************************)
\* the role details the catalog gives, as a Map that holds every role
CatalogDetails == [r \in RoleNames |-> ResolvedDetails(r)]

\* the success response of the call run alone
AloneResponse(i) ==
    PermissionsSuccess(SortRoles(assignedRoles[i]),
                       SortPermissions(ResolveWithCache(assignedRoles[i],
                                                        CatalogDetails).permissions))

C22_OwnCacheOnly ==
    \A i \in Requests :
        (IsPermissionsCall(i) /\ assignedRoles[i] # <<>>)
        => /\ DOMAIN roleCache[i] \subseteq Range(detailCalls[i])
           /\ pc[i] = "done"
              => IF \E k \in 1..Len(roleRequests[i]) : IsFatal(roleRequests[i][k])
                 THEN /\ IsFatal(roleRequests[i][Len(roleRequests[i])])
                      /\ response[i] = PermissionsCatch(catalog[roleRequests[i][Len(roleRequests[i])]])
                 ELSE /\ response[i] = AloneResponse(i)
                      /\ Range(detailCalls[i]) = Closure(Range(assignedRoles[i]))
                      /\ DOMAIN roleCache[i] = Range(detailCalls[i])

\* the first call has returned with roles/viewer in its cache; the second
\* call, its own cache empty, is waiting for the provider's answer for it
C22_Witness ==
    /\ Requests = {1, 2}
    /\ IsPermissionsCall(1) /\ Succeeded(1)
    /\ rViewer \in DOMAIN roleCache[1]
    /\ IsPermissionsCall(2) /\ pc[2] = "getRoleDetails"
    /\ roleName[2] = rViewer
    /\ roleCache[2] = NoCache

(***************************************************************************)
(* C30: POST /check-iam-permissions asks a provider only while both        *)
(* clients are set; a valid request that finds a client unset awaits one   *)
(* initialization, entered only on arrival, and after it either both       *)
(* clients are set and the policy is requested or the request ends with    *)
(* 500 without any provider request; in every interleaving with the        *)
(* start-up initialization and another request.                            *)
(***************************************************************************)
ClientsSet == cloudResourceManager /\ iam

C30_NoCallWithoutClients ==
    /\ [](\A i \in Requests :
             (IsPermissionsCall(i)
                /\ (\/ policyRequests[i] > 0
                    \/ roleRequests[i] # <<>>
                    \/ pc[i] \in {"getIamPolicy", "resolve", "getRoleDetails"}))
             => ClientsSet)
    /\ [][\A i \in Requests :
             /\ (pc[i] = "idle" /\ pc'[i] # "idle" /\ IsPermissionsCall(i)'
                   /\ ~Malformed(body'[i].projectId) /\ ~Malformed(body'[i].email))
                => IF ClientsSet
                   THEN pc'[i] = "getIamPolicy" /\ policyRequests'[i] = 1
                   ELSE pc'[i] = "initializeGoogleClients" /\ policyRequests'[i] = 0
             /\ (pc'[i] = "initializeGoogleClients" /\ pc[i] # "initializeGoogleClients")
                => pc[i] = "idle"
             /\ (pc[i] = "initializeGoogleClients" /\ pc'[i] # "initializeGoogleClients")
                => IF ClientsSet'
                   THEN pc'[i] = "getIamPolicy" /\ policyRequests'[i] = 1
                   ELSE /\ pc'[i] = "done"
                        /\ response'[i].status = 500
                        /\ policyRequests'[i] = 0
                        /\ roleRequests'[i] = <<>>]_vars

\* the first request has ended with 500 after its initialization failed; the
\* second has initialized the clients and requested the policy, all before
\* the start-up initialization has completed
C30_Witness ==
    /\ Requests = {1, 2}
    /\ startup = "pending"
    /\ pc[1] = "done" /\ response[1] = ClientsFailed /\ policyRequests[1] = 0
    /\ pc[2] = "getIamPolicy" /\ ClientsSet

====
